---------------------------- MODULE Spec2Model ----------------------------
(***************************************************************************)
(* The in-order visitor of pkg/compiler/core/visitor.go.                   *)
(*                                                                         *)
(* NewInOrderVisitor(pre, post) composes two optional observers into one   *)
(* Visitor.  VisitStack walks a Stack: Metadata (and its Targets), the     *)
(* Parameters, the Dependencies and the Services (Public, then Private).   *)
(* Every map is ranged over in Go's unspecified order, the keys are sorted *)
(* with sort.Strings, and each entry is copied out, handed to the          *)
(* observers by pointer and copied back.                                   *)
(*                                                                         *)
(* The observers are not part of the repository: they are the environment. *)
(* An observer that is present logs every call it receives.  The           *)
(* observers of a behaviour are of one kind:                               *)
(*   "readonly"   they mutate nothing (up to MaxRuns traversals in a row   *)
(*                are followed);                                           *)
(*   "leaf"       each leaf call (VisitTarget, VisitParameter,             *)
(*                VisitDependency, VisitService) may edit the record it    *)
(*                is handed;                                               *)
(*   "container"  each container call (VisitStack, VisitMetadata) may add  *)
(*                a key to a map of the record it is handed, or delete     *)
(*                one;                                                     *)
(* with at most MaxMut mutations in the traversal that is followed.        *)
(***************************************************************************)
EXTENDS Naturals, Sequences, FiniteSets, TLC

(***************************************************************************)
(* Bounds of the model.                                                    *)
(***************************************************************************)
\* Entries (over the five maps together) of a Stack handed to VisitStack.
MaxEntries == 3
\* Mutations that observers perform in one traversal.
MaxMut == 2
\* Traversals in a row of one Stack by observers that mutate nothing.
MaxRuns == 2

(***************************************************************************)
(* Names are Go strings: sequences of bytes.  "a", "ab" and "b".           *)
(***************************************************************************)
NameA == <<97>>
NameAB == <<97, 98>>
NameB == <<98>>
Names == {NameA, NameAB, NameB}

\* The keys the document loader may give each map.
KeysOf(m) == IF m = "Parameters" THEN Names ELSE {NameA, NameB}

\* The absent observer, the absent sink, the absent return value.
Nil == "nil"
NoRet == "none"

\* The five maps of a Stack, in the order VisitStack walks them.
Maps == <<"Targets", "Parameters", "Dependencies", "Public", "Private">>
MapNames == {Maps[i] : i \in 1..Len(Maps)}

VARIABLES
    v,          \* the composite: [pre, post], each an observer or Nil
    stack,      \* the Stack being walked
    pc,         \* where the traversal stands
    keys,       \* the sorted key slice of the loop being run
    idx,        \* 1-based position in keys
    log,        \* the observer calls of the current traversal, in order
    prev,       \* the previous traversal: [ran, log, orig]
    orig,       \* the Stack as handed to the current traversal
    collected,  \* per map, the key set its range loop enumerated
    obsKind,    \* what the observers do: "readonly", "leaf", "container"
    quota,      \* mutations the observers may still perform
    runs,       \* traversals that may still be started
    panicked,   \* a method was invoked on a nil Visitor
    ret,        \* what the last Diag() call returned
    lookups     \* the reads of the cloud tables made so far (package clouds)

vars == <<v, stack, pc, keys, idx, log, prev, orig, collected, obsKind, quota,
          runs, panicked, ret, lookups>>

(***************************************************************************)
(* Go's string comparison (byte-wise) and sort.Strings.                    *)
(***************************************************************************)
RECURSIVE StrLess(_, _)
StrLess(x, y) ==
    IF y = <<>> THEN FALSE
    ELSE IF x = <<>> THEN TRUE
    ELSE IF Head(x) # Head(y) THEN Head(x) < Head(y)
    ELSE StrLess(Tail(x), Tail(y))

\* The inner loop of an insertion sort: s[j] sinks while it is less than
\* its left neighbour.
RECURSIVE Sink(_, _)
Sink(s, j) ==
    IF j > 1 /\ StrLess(s[j], s[j - 1])
    THEN Sink([s EXCEPT ![j] = s[j - 1], ![j - 1] = s[j]], j - 1)
    ELSE s

RECURSIVE InsertionSort(_, _)
InsertionSort(s, i) ==
    IF i > Len(s) THEN s ELSE InsertionSort(Sink(s, i), i + 1)

\* A broken sort: the slice is left in the order the map enumerated it.
SortStringsNone(s) == s

\* sort.Strings(s)
SortStrings(s) == InsertionSort(s, 2)

\* The orders in which `for k := range m` may enumerate the key set S.
RangeOrders(S) ==
    {s \in [1..Cardinality(S) -> S] : \A i, j \in DOMAIN s : i # j => s[i] # s[j]}

(***************************************************************************)
(* The record graph.  A leaf record (Target, Parameter, Dependency,        *)
(* Service) carries what the document loader put into it (id: the map and  *)
(* the key it was loaded under) and the number of edits observers made     *)
(* to it (rev).                                                            *)
(***************************************************************************)
Leaf(m, k) == [id |-> <<m, k>>, rev |-> 0]

MkStack(T, P, D, Pu, Pr) ==
    [Metadata     |-> [Targets |-> [k \in T |-> Leaf("Targets", k)]],
     Parameters   |-> [k \in P |-> Leaf("Parameters", k)],
     Dependencies |-> [k \in D |-> Leaf("Dependencies", k)],
     Services     |-> [Public  |-> [k \in Pu |-> Leaf("Public", k)],
                       Private |-> [k \in Pr |-> Leaf("Private", k)]]]

\* The map named m of Stack s.
MapOf(s, m) ==
    CASE m = "Targets"      -> s.Metadata.Targets
      [] m = "Parameters"   -> s.Parameters
      [] m = "Dependencies" -> s.Dependencies
      [] m = "Public"       -> s.Services.Public
      [] m = "Private"      -> s.Services.Private

\* Stack s with f as its map named m.
WithMap(s, m, f) ==
    CASE m = "Targets"      -> [s EXCEPT !.Metadata.Targets = f]
      [] m = "Parameters"   -> [s EXCEPT !.Parameters = f]
      [] m = "Dependencies" -> [s EXCEPT !.Dependencies = f]
      [] m = "Public"       -> [s EXCEPT !.Services.Public = f]
      [] m = "Private"      -> [s EXCEPT !.Services.Private = f]

\* Go's map assignment f[k] = r: inserts or overwrites.
MapSet(f, k, r) == [x \in DOMAIN f \cup {k} |-> IF x = k THEN r ELSE f[x]]

\* Go's delete(f, k).
MapDelete(f, k) == [x \in DOMAIN f \ {k} |-> f[x]]

Entries(s) ==
    Cardinality(DOMAIN s.Metadata.Targets) + Cardinality(DOMAIN s.Parameters)
    + Cardinality(DOMAIN s.Dependencies) + Cardinality(DOMAIN s.Services.Public)
    + Cardinality(DOMAIN s.Services.Private)


\* The zero value a Go map read yields for a key that is not in the map.
ZeroLeaf == [id |-> <<"", <<>>>>, rev |-> 0]

\* Go's map read f[k].
MapGet(f, k) == IF k \in DOMAIN f THEN f[k] ELSE ZeroLeaf

(***************************************************************************)
(* The observers.  An observer owns a diagnostics sink; every call          *)
(* it receives is logged with the record as it was handed over (seen) and  *)
(* as the observer left it (left).                                         *)
(***************************************************************************)
ObsA == "obsA"
ObsB == "obsB"

\* o.Diag() of an observer o: its own sink.
SinkOf(o) == IF o = ObsA THEN "sinkA" ELSE "sinkB"

Call(who, op, kind, name, public, seen, left) ==
    [who |-> who, op |-> op, kind |-> kind, name |-> name, public |-> public,
     seen |-> seen, left |-> left]

\* What a leaf observer may do to the record it is handed: edit it.
LeafEdits(r) == {[r EXCEPT !.rev = @ + 1]}

\* The key a container observer adds to the map it edits, or deletes from it.
HookKey == NameAB

\* What an observer may do to the Metadata it is handed: add a Target or
\* delete one.
MetadataEdits(meta) ==
    IF HookKey \in DOMAIN meta.Targets
    THEN {[meta EXCEPT !.Targets = MapDelete(@, HookKey)]}
    ELSE {[meta EXCEPT !.Targets = MapSet(@, HookKey, Leaf("Targets", HookKey))]}

\* What an observer may do to the Stack it is handed: add a Parameter or
\* delete one.
StackEdits(s) ==
    IF HookKey \in DOMAIN s.Parameters
    THEN {[s EXCEPT !.Parameters = MapDelete(@, HookKey)]}
    ELSE {[s EXCEPT !.Parameters = MapSet(@, HookKey, Leaf("Parameters", HookKey))]}

\* The outcomes of one observer call on record r: left alone, or, when the
\* observer exists, is of kind `k` and `left` mutations may still be made,
\* one of the edits.
Outcomes(who, k, r, edits, left) ==
    {r} \cup (IF v[who] # Nil /\ obsKind = k /\ left > 0 THEN edits ELSE {})

(***************************************************************************)
(* The composite.  A frame is the state a composite method works on: the   *)
(* record behind the pointer it was given, the log, and whether a nil      *)
(* Visitor was dereferenced (a Go panic, which ends the traversal).        *)
(***************************************************************************)
Frame(r, l) == [rec |-> r, log |-> l, panic |-> FALSE]

\* A broken nil check: the observer is taken to be there.
PresentAlways(o) == TRUE

\* o != nil
Present(o) == o # Nil

\* v.<who>.<op>(doc, ..., &rec): the observer's method runs and leaves the
\* record as `left`.  On a nil Visitor the call panics.
Invoke(fr, who, op, kind, name, public, left) ==
    IF fr.panic THEN fr
    ELSE IF v[who] = Nil THEN [fr EXCEPT !.panic = TRUE]
    ELSE [fr EXCEPT !.log = Append(@, Call(who, op, kind, name, public, fr.rec, left)),
                    !.rec = left]

\* if v.<who> != nil { v.<who>.<op>(...) }
Guarded(fr, who, op, kind, name, public, left) ==
    IF Present(v[who]) THEN Invoke(fr, who, op, kind, name, public, left) ELSE fr

\* A leaf method that calls the post observer before the pre observer.
VisitLeafPostFirst(fr, op, name, public, left1, left2) ==
    Guarded(Guarded(fr, "post", op, "", name, public, left1),
            "pre", op, "", name, public, left2)

\* A leaf method of the composite (VisitTarget, VisitParameter,
\* VisitDependency, VisitService): pre, then post, on the same record.
VisitLeaf(fr, op, name, public, left1, left2) ==
    Guarded(Guarded(fr, "pre", op, "", name, public, left1),
            "post", op, "", name, public, left2)

\* A write-back that is dropped: the map keeps what it held.
WriteBackDropped(s, m, k, r) == s

\* A write-back that stores the zero value instead of the working copy.
WriteBackZero(s, m, k, r) == WithMap(s, m, MapSet(MapOf(s, m), k, ZeroLeaf))

\* A write-back that stores the working copy under another key.
WriteBackRenamed(s, m, k, r) ==
    WithMap(s, m, MapSet(MapDelete(MapOf(s, m), k), Append(k, 33), r))

\* A write-back that is one key ahead: the working copy is stored at the
\* key the loop visits next (at its own key on the last iteration).
WriteBackAhead(s, m, k, r) ==
    WithMap(s, m, MapSet(MapOf(s, m),
                         IF idx < Len(keys) THEN keys[idx + 1] ELSE k, r))

\* A write-back of a private service that stores into Public.
WriteBackIntoPublic(s, m, k, r) ==
    LET to == IF m = "Private" THEN "Public" ELSE m
    IN WithMap(s, to, MapSet(MapOf(s, to), k, r))

\* m[name] = rec: the working copy is copied back into the map.
WriteBack(s, m, k, r) == WithMap(s, m, MapSet(MapOf(s, m), k, r))

\* A loop that stops one element early.
LoopDoneEarly(ks, i) == i >= Len(ks)

\* The range loop over the sorted key slice is over.
LoopDone(ks, i) == i > Len(ks)

\* The number of observer mutations among a call's seen/left pairs.
Changed(a, b) == IF a = b THEN 0 ELSE 1

(***************************************************************************)
(* Construction and Diag.                                                  *)
(***************************************************************************)
\* NewInOrderVisitor(pre, post)
NewInOrderVisitor(p, q) == [pre |-> p, post |-> q]

\* A Diag that asks the post observer first.
DiagPostFirst(c) ==
    IF c.post # Nil THEN SinkOf(c.post)
    ELSE IF c.pre # Nil THEN SinkOf(c.pre)
    ELSE Nil

\* (v *inOrderVisitor) Diag()
Diag(c) ==
    IF c.pre # Nil THEN SinkOf(c.pre)
    ELSE IF c.post # Nil THEN SinkOf(c.post)
    ELSE Nil

\* The Stacks the document loader hands over: every choice of key sets with
\* at most MaxEntries entries.
StackInputs ==
    {s \in {MkStack(T, P, D, Pu, Pr) :
                T \in SUBSET KeysOf("Targets"), P \in SUBSET KeysOf("Parameters"),
                D \in SUBSET KeysOf("Dependencies"), Pu \in SUBSET KeysOf("Public"),
                Pr \in SUBSET KeysOf("Private")} :
        Entries(s) <= MaxEntries}

NoKeys == [m \in MapNames |-> {}]

Init ==
    /\ v \in {NewInOrderVisitor(p, q) : p \in {Nil, ObsA}, q \in {Nil, ObsB}}
    /\ stack \in StackInputs
    /\ pc = "idle"
    /\ keys = <<>>
    /\ idx = 1
    /\ log = <<>>
    /\ prev = [ran |-> FALSE, log |-> <<>>, orig |-> stack]
    /\ orig = stack
    /\ collected = NoKeys
    /\ obsKind \in {"readonly", "leaf", "container"}
    /\ quota = IF obsKind = "readonly" THEN 0 ELSE MaxMut
    /\ runs = IF obsKind = "readonly" THEN MaxRuns ELSE 1
    /\ panicked = FALSE
    /\ ret = NoRet
    /\ lookups = <<>>

(***************************************************************************)
(* The steps of a traversal.                                               *)
(***************************************************************************)
\* A container hook that worked on frame fr and left the Stack as st ends:
\* by a panic, or by going on to `next`.
Continue(fr, st, next) ==
    /\ log' = fr.log
    /\ panicked' = fr.panic
    /\ quota' = quota - Changed(stack, st)
    /\ IF fr.panic
       THEN pc' = "panic" /\ UNCHANGED stack
       ELSE pc' = next /\ stack' = st
    /\ UNCHANGED <<lookups, v, keys, idx, prev, orig, collected, obsKind, runs, ret>>

\* A key collection that ranges over the map as it was when VisitStack was
\* called, before any hook ran.
CollectFromOrig(m, from, fromDone, next) ==
    /\ pc = from
    /\ fromDone
    /\ \E order \in RangeOrders(DOMAIN MapOf(orig, m)) :
        /\ keys' = SortStrings(order)
        /\ idx' = 1
        /\ collected' = [collected EXCEPT ![m] = DOMAIN MapOf(orig, m)]
    /\ pc' = next
    /\ UNCHANGED <<lookups, v, stack, log, prev, orig, obsKind, quota, runs, panicked, ret>>

\* for k := range m { ks = append(ks, k) }; sort.Strings(ks)
Collect(m, from, fromDone, next) ==
    /\ pc = from
    /\ fromDone
    /\ \E order \in RangeOrders(DOMAIN MapOf(stack, m)) :
        /\ keys' = SortStrings(order)
        /\ idx' = 1
        /\ collected' = [collected EXCEPT ![m] = DOMAIN MapOf(stack, m)]
    /\ pc' = next
    /\ UNCHANGED <<lookups, v, stack, log, prev, orig, obsKind, quota, runs, panicked, ret>>

\* One iteration of `for _, name := range ks`: copy the entry out, visit
\* it, copy it back.
Iterate(m, op, public) ==
    /\ pc = m
    /\ ~LoopDone(keys, idx)
    /\ LET name == keys[idx]
           rec == MapGet(MapOf(stack, m), name)
       IN \E left1 \in Outcomes("pre", "leaf", rec, LeafEdits(rec), quota) :
          \E left2 \in Outcomes("post", "leaf", left1, LeafEdits(left1),
                                quota - Changed(rec, left1)) :
            LET fr == VisitLeaf(Frame(rec, log), op, name, public, left1, left2)
                st == WriteBack(stack, m, name, fr.rec)
            IN /\ log' = fr.log
               /\ panicked' = fr.panic
               /\ quota' = quota - (Changed(rec, left1) + Changed(left1, left2))
               /\ IF fr.panic
                  THEN pc' = "panic" /\ UNCHANGED <<stack, idx>>
                  ELSE pc' = pc /\ stack' = st /\ idx' = idx + 1
    /\ UNCHANGED <<lookups, v, keys, prev, orig, collected, obsKind, runs, ret>>

\* A VisitStack that descends without calling the pre observer.
VisitStackNoPre ==
    /\ pc \in {"idle", "done"}
    /\ runs > 0
    /\ runs' = runs - 1
    /\ prev' = IF pc = "done" THEN [ran |-> TRUE, log |-> log, orig |-> orig]
               ELSE prev
    /\ orig' = stack
    /\ collected' = NoKeys
    /\ ret' = NoRet
    /\ log' = <<>>
    /\ pc' = "VisitMetadata"
    /\ UNCHANGED <<lookups, v, stack, keys, idx, obsKind, quota, panicked>>

\* A VisitStack that goes to the Parameters without walking the Metadata.
VisitStackNoMetadata ==
    /\ pc \in {"idle", "done"}
    /\ runs > 0
    /\ runs' = runs - 1
    /\ prev' = IF pc = "done" THEN [ran |-> TRUE, log |-> log, orig |-> orig]
               ELSE prev
    /\ orig' = stack
    /\ collected' = NoKeys
    /\ ret' = NoRet
    /\ \E left \in Outcomes("pre", "container", stack, StackEdits(stack), quota) :
        LET fr == Guarded(Frame(stack, <<>>), "pre", "VisitStack", "", <<>>,
                          FALSE, left)
        IN /\ log' = fr.log
           /\ panicked' = fr.panic
           /\ quota' = quota - Changed(stack, fr.rec)
           /\ stack' = fr.rec
           /\ pc' = IF fr.panic THEN "panic" ELSE "CollectParameters"
    /\ UNCHANGED <<lookups, v, keys, idx, obsKind>>

\* VisitStack is called on the composite (lines 71-74): the pre observer's
\* VisitStack runs first.
VisitStack ==
    /\ pc \in {"idle", "done"}
    /\ runs > 0
    /\ runs' = runs - 1
    /\ prev' = IF pc = "done" THEN [ran |-> TRUE, log |-> log, orig |-> orig]
               ELSE prev
    /\ orig' = stack
    /\ collected' = NoKeys
    /\ ret' = NoRet
    /\ \E left \in Outcomes("pre", "container", stack, StackEdits(stack), quota) :
        LET fr == Guarded(Frame(stack, <<>>), "pre", "VisitStack", "", <<>>,
                          FALSE, left)
        IN /\ log' = fr.log
           /\ panicked' = fr.panic
           /\ quota' = quota - Changed(stack, fr.rec)
           /\ stack' = fr.rec
           /\ pc' = IF fr.panic THEN "panic" ELSE "VisitMetadata"
    /\ UNCHANGED <<lookups, v, keys, idx, obsKind>>

\* v.VisitMetadata(doc, "Stack", &stack.Metadata), lines 49-52: the pre
\* observer's VisitMetadata.
VisitMetadataPre ==
    /\ pc = "VisitMetadata"
    /\ LET meta == stack.Metadata
       IN \E left \in Outcomes("pre", "container", meta, MetadataEdits(meta), quota) :
            LET fr == Guarded(Frame(meta, log), "pre", "VisitMetadata", "Stack",
                              <<>>, FALSE, left)
            IN Continue(fr, [stack EXCEPT !.Metadata = fr.rec], "CollectTargets")

\* Lines 54-58.
CollectTargets == Collect("Targets", "CollectTargets", TRUE, "Targets")

\* Lines 59-64, with VisitTarget (lines 165-172).
VisitTarget == Iterate("Targets", "VisitTarget", FALSE)

\* A VisitMetadata that does not wait for the end of the Targets loop before
\* it calls the post observer.
VisitMetadataPostEarly ==
    /\ pc = "Targets"
    /\ LET meta == stack.Metadata
       IN \E left \in Outcomes("post", "container", meta, MetadataEdits(meta), quota) :
            LET fr == Guarded(Frame(meta, log), "post", "VisitMetadata", "Stack",
                              <<>>, FALSE, left)
            IN Continue(fr, [stack EXCEPT !.Metadata = fr.rec], "CollectParameters")

\* Lines 66-68: the post observer's VisitMetadata, after the Targets.
VisitMetadataPost ==
    /\ pc = "Targets"
    /\ LoopDone(keys, idx)
    /\ LET meta == stack.Metadata
       IN \E left \in Outcomes("post", "container", meta, MetadataEdits(meta), quota) :
            LET fr == Guarded(Frame(meta, log), "post", "VisitMetadata", "Stack",
                              <<>>, FALSE, left)
            IN Continue(fr, [stack EXCEPT !.Metadata = fr.rec], "CollectParameters")

\* Lines 78-82.
CollectParameters == Collect("Parameters", "CollectParameters", TRUE, "Parameters")

\* Lines 83-88, with VisitParameter (lines 110-117).
VisitParameter == Iterate("Parameters", "VisitParameter", FALSE)

\* Lines 90-94.
CollectDependencies ==
    Collect("Dependencies", "Parameters", LoopDone(keys, idx), "Dependencies")

\* Lines 95-101, with VisitDependency (lines 119-126).
VisitDependency == Iterate("Dependencies", "VisitDependency", FALSE)

\* A VisitServices that walks the private services first.
ServicesOrderSwapped == <<"Private", "Public">>

\* The order of the two loops of VisitServices (lines 128-154).
ServicesOrder == <<"Public", "Private">>

\* v.VisitServices(doc, &stack.Services), lines 103 and 128-133 (with the
\* loops in their order: the keys of Public).
VisitServices ==
    Collect(ServicesOrder[1], "Dependencies", LoopDone(keys, idx), ServicesOrder[1])

\* Lines 134-140, with VisitService (lines 156-163) and public = true.
VisitPublicService == Iterate("Public", "VisitService", TRUE)

\* Lines 142-146 (with the loops in their order: the keys of Private).
CollectPrivates ==
    Collect(ServicesOrder[2], ServicesOrder[1], LoopDone(keys, idx), ServicesOrder[2])

\* Lines 147-153, with VisitService (lines 156-163) and public = false.
VisitPrivateService == Iterate("Private", "VisitService", FALSE)

\* Lines 105-107: the post observer's VisitStack, and VisitStack returns.
VisitStackPost ==
    /\ pc = ServicesOrder[2]
    /\ LoopDone(keys, idx)
    /\ \E left \in Outcomes("post", "container", stack, StackEdits(stack), quota) :
        LET fr == Guarded(Frame(stack, log), "post", "VisitStack", "", <<>>,
                          FALSE, left)
        IN Continue(fr, fr.rec, "done")

\* Diag() is called on the composite, before it is sent on a traversal.
CallDiag ==
    /\ pc = "idle"
    /\ ret = NoRet
    /\ ret' = Diag(v)
    /\ UNCHANGED <<lookups, v, stack, pc, keys, idx, log, prev, orig, collected, obsKind,
                   quota, runs, panicked>>

Next ==
    \/ VisitStack
    \/ VisitMetadataPre
    \/ CollectTargets
    \/ VisitTarget
    \/ VisitMetadataPost
    \/ CollectParameters
    \/ VisitParameter
    \/ CollectDependencies
    \/ VisitDependency
    \/ VisitServices
    \/ VisitPublicService
    \/ CollectPrivates
    \/ VisitPrivateService
    \/ VisitStackPost
    \/ CallDiag

Spec == Init /\ [][Next]_vars

\* Every observer call returns and the composite runs on: a traversal that
\* can take a step takes it.
FairSpec == Spec /\ WF_vars(Next)

(***************************************************************************)
(* Package clouds (pkg/compiler/clouds/clouds.go): the cloud architectures *)
(* and the two tables between their names and their tags.  The tables are  *)
(* package variables that nothing in the package writes; a program reads   *)
(* them.  A read of a Go map at a key it does not hold yields the zero     *)
(* value.                                                                  *)
(***************************************************************************)
\* Reads of the tables that are followed.
MaxLookups == 3

\* type Arch int, with iota.
NoArch == 0
AWSArch == 1
GCPArch == 2
AzureArch == 3
VMWareArch == 4

noArch == ""
awsArch == "aws"
gcpArch == "gcp"
azureArch == "azure"
vmwareArch == "vmware"

\* var ArchMap = map[string]Arch{...}
ArchMap ==
    (noArch :> NoArch) @@ (awsArch :> AWSArch) @@ (gcpArch :> GCPArch)
    @@ (azureArch :> AzureArch) @@ (vmwareArch :> VMWareArch)

\* An ArchNames with the names of two architectures exchanged.
ArchNamesSwapped ==
    (NoArch :> noArch) @@ (AWSArch :> awsArch) @@ (GCPArch :> azureArch)
    @@ (AzureArch :> gcpArch) @@ (VMWareArch :> vmwareArch)

\* var ArchNames = map[Arch]string{...}
ArchNames ==
    (NoArch :> noArch) @@ (AWSArch :> awsArch) @@ (GCPArch :> gcpArch)
    @@ (AzureArch :> azureArch) @@ (VMWareArch :> vmwareArch)

\* ArchMap[n]: the zero Arch for a name the table does not hold.
ArchMapGet(n) == IF n \in DOMAIN ArchMap THEN ArchMap[n] ELSE 0

\* ArchNames[a]: the empty string for an Arch the table does not hold.
ArchNamesGet(a) == IF a \in DOMAIN ArchNames THEN ArchNames[a] ELSE ""

\* The names a program looks up: those of the table and two it does not hold.
NameInputs == DOMAIN ArchMap \cup {"ec2", "AWS"}

\* The Archs a program looks up: those of the table and one beyond.
ArchInputs == DOMAIN ArchNames \cup {VMWareArch + 1}

\* A composite that is not sent on a traversal, and no table read yet.
CloudsInit ==
    /\ v = NewInOrderVisitor(Nil, Nil)
    /\ stack = MkStack({}, {}, {}, {}, {})
    /\ pc = "idle"
    /\ keys = <<>>
    /\ idx = 1
    /\ log = <<>>
    /\ prev = [ran |-> FALSE, log |-> <<>>, orig |-> stack]
    /\ orig = stack
    /\ collected = NoKeys
    /\ obsKind = "readonly"
    /\ quota = 0
    /\ runs = MaxRuns
    /\ panicked = FALSE
    /\ ret = NoRet
    /\ lookups = <<>>

\* a := ArchMap[n]; back := ArchNames[a]
LookupName ==
    /\ Len(lookups) < MaxLookups
    /\ \E n \in NameInputs :
        lookups' = Append(lookups, [table |-> "ArchMap", key |-> n,
                                    val |-> ArchMapGet(n),
                                    back |-> ArchNamesGet(ArchMapGet(n))])
    /\ UNCHANGED <<v, stack, pc, keys, idx, log, prev, orig, collected, obsKind,
                   quota, runs, panicked, ret>>

\* n := ArchNames[a]; back := ArchMap[n]
LookupArch ==
    /\ Len(lookups) < MaxLookups
    /\ \E a \in ArchInputs :
        lookups' = Append(lookups, [table |-> "ArchNames", key |-> a,
                                    val |-> ArchNamesGet(a),
                                    back |-> ArchMapGet(ArchNamesGet(a))])
    /\ UNCHANGED <<v, stack, pc, keys, idx, log, prev, orig, collected, obsKind,
                   quota, runs, panicked, ret>>

CloudsNext ==
    \/ LookupName
    \/ LookupArch

CloudsSpec == CloudsInit /\ [][CloudsNext]_vars

(***************************************************************************)
(* Vocabulary of the properties.                                           *)
(***************************************************************************)
\* x sorts strictly before y, byte by byte (a proper prefix sorts first).
Precedes(x, y) ==
    \/ \E i \in 1..Len(x) :
        /\ i <= Len(y)
        /\ x[i] < y[i]
        /\ \A j \in 1..(i - 1) : x[j] = y[j]
    \/ /\ Len(x) < Len(y)
       /\ \A j \in 1..Len(x) : x[j] = y[j]

LeafOps == {"VisitTarget", "VisitParameter", "VisitDependency", "VisitService"}

\* The map a logged leaf call took its record from.
MapOfCall(e) ==
    CASE e.op = "VisitTarget"     -> "Targets"
      [] e.op = "VisitParameter"  -> "Parameters"
      [] e.op = "VisitDependency" -> "Dependencies"
      [] e.op = "VisitService"    -> IF e.public THEN "Public" ELSE "Private"

\* Logged calls e and f visit entries of the same map for the same observer.
SameLoop(e, f) ==
    /\ e.op \in LeafOps
    /\ f.op \in LeafOps
    /\ e.who = f.who
    /\ MapOfCall(e) = MapOfCall(f)

\* Key k of map m as a set: empty when the key is not there.
At(f, k) == IF k \in DOMAIN f THEN {f[k]} ELSE {}

\* The logged container call c changed entry k of map m.
Touches(c, m, k) ==
    CASE c.op = "VisitStack" ->
            At(MapOf(c.seen, m), k) # At(MapOf(c.left, m), k)
      [] c.op = "VisitMetadata" ->
            m = "Targets" /\ At(c.seen.Targets, k) # At(c.left.Targets, k)
      [] OTHER -> FALSE

\* Call i of log l is the last word on the entry it visited.
LastWord(l, i) ==
    /\ l[i].op \in LeafOps
    /\ \A j \in (i + 1)..Len(l) :
        /\ ~(l[j].op \in LeafOps /\ MapOfCall(l[j]) = MapOfCall(l[i])
             /\ l[j].name = l[i].name)
        /\ ~Touches(l[j], MapOfCall(l[i]), l[i].name)

\* The observers of traversal log l mutated nothing.
ReadOnly(l) == \A i \in DOMAIN l : l[i].seen = l[i].left

\* The roles of the observers that are there.
Roles == {w \in {"pre", "post"} : v[w] # Nil}

(***************************************************************************)
(* C1: within one traversal, each observer is handed the entries of        *)
(* Metadata.Targets, of Stack.Parameters and of Stack.Dependencies in      *)
(* strictly ascending byte-wise order of their keys, whatever order the    *)
(* maps were enumerated in.                                                *)
(***************************************************************************)
C1_AscendingKeys ==
    \A j \in DOMAIN log :
        log[j].op \in {"VisitTarget", "VisitParameter", "VisitDependency"} =>
            \A i \in 1..(j - 1) :
                SameLoop(log[i], log[j]) => Precedes(log[i].name, log[j].name)

\* Parameters {b, a, ab} were walked: the observer saw a, ab, b.
C1_Witness ==
    /\ pc = "done"
    /\ DOMAIN orig.Parameters = Names
    /\ \E i, j, k \in DOMAIN log :
        /\ i < j /\ j < k
        /\ log[i].op = "VisitParameter" /\ log[i].name = NameA
        /\ log[j].op = "VisitParameter" /\ log[j].name = NameAB
        /\ log[k].op = "VisitParameter" /\ log[k].name = NameB
        /\ log[i].who = "pre" /\ log[j].who = "pre" /\ log[k].who = "pre"

(***************************************************************************)
(* C2: once a Private service is visited, every Public service has been    *)
(* visited (with public = true) by that observer and its working copy has  *)
(* been stored back into Public; no Public service is visited after a      *)
(* Private one; each of the two groups is walked in ascending key order.   *)
(***************************************************************************)
C2_PublicBeforePrivate ==
    /\ \A i \in DOMAIN log :
        log[i].op = "VisitService" =>
            \A h \in 1..(i - 1) :
                SameLoop(log[h], log[i]) => Precedes(log[h].name, log[i].name)
    /\ \A j \in DOMAIN log :
        (log[j].op = "VisitService" /\ ~log[j].public) =>
            /\ \A k \in DOMAIN stack.Services.Public :
                \E i \in 1..(j - 1) :
                    /\ log[i].op = "VisitService" /\ log[i].public
                    /\ log[i].who = log[j].who
                    /\ log[i].name = k
            /\ \A i \in 1..(j - 1) :
                (log[i].op = "VisitService" /\ log[i].public /\ LastWord(log, i))
                => At(stack.Services.Public, log[i].name) = {log[i].left}
            /\ \A h \in (j + 1)..Len(log) :
                log[h].op = "VisitService" => ~log[h].public

\* Public {b}, Private {a}: b was visited as public before a as private.
C2_Witness ==
    /\ pc = "done"
    /\ \E i, j \in DOMAIN log :
        /\ i < j
        /\ log[i].op = "VisitService" /\ log[i].public /\ log[i].name = NameB
        /\ log[j].op = "VisitService" /\ ~log[j].public /\ log[j].name = NameA

(***************************************************************************)
(* C3: with a pre observer, its VisitStack is the first observer call of   *)
(* the traversal and happens once; with a post observer, its VisitStack    *)
(* is the last call and happens once, when the traversal ends.  All other  *)
(* calls lie between the two.                                              *)
(***************************************************************************)
C3_StackBrackets ==
    /\ (v.pre # Nil /\ pc \notin {"idle", "panic"}) =>
        /\ Len(log) >= 1
        /\ log[1].who = "pre" /\ log[1].op = "VisitStack"
    /\ (v.post # Nil /\ pc = "done") =>
        /\ Len(log) >= 1
        /\ log[Len(log)].who = "post" /\ log[Len(log)].op = "VisitStack"
    /\ \A i \in DOMAIN log :
        log[i].op = "VisitStack" =>
            \/ (log[i].who = "pre" /\ i = 1)
            \/ (log[i].who = "post" /\ i = Len(log) /\ pc = "done")

\* Both observers, and targets, parameters, dependencies and services in
\* between their two VisitStack calls.
C3_Witness ==
    /\ pc = "done"
    /\ v.pre # Nil /\ v.post # Nil
    /\ \A o \in LeafOps \cup {"VisitMetadata"} :
        \E i \in 2..(Len(log) - 1) : log[i].op = o

(***************************************************************************)
(* C4: when VisitStack has returned, every entry holds the value the last  *)
(* observer call on it left in the working copy (unless a container        *)
(* observer that ran later replaced or removed it).                        *)
(***************************************************************************)
C4_WriteBackFidelity ==
    pc = "done" =>
        \A i \in DOMAIN log :
            LastWord(log, i) =>
                At(MapOf(stack, MapOfCall(log[i])), log[i].name) = {log[i].left}

\* Three parameters; the observers mutated the first and the last of them.
C4_Witness ==
    /\ pc = "done"
    /\ DOMAIN stack.Parameters = Names
    /\ \E i, j \in DOMAIN log :
        /\ log[i].op = "VisitParameter" /\ log[i].name = NameA
        /\ log[i].seen # log[i].left /\ LastWord(log, i)
        /\ log[j].op = "VisitParameter" /\ log[j].name = NameB
        /\ log[j].seen # log[j].left /\ LastWord(log, j)
        /\ stack.Parameters[NameA] # orig.Parameters[NameA]
        /\ stack.Parameters[NameB] # orig.Parameters[NameB]
        /\ stack.Parameters[NameAB] = orig.Parameters[NameAB]

(***************************************************************************)
(* C5: for every record-visiting method the composite calls the pre        *)
(* observer's method before the record's children are visited and the      *)
(* post observer's method after them: VisitStack around everything,        *)
(* VisitMetadata around the Targets, VisitServices around the Services,    *)
(* and on a leaf pre before post.                                          *)
(* The composite's VisitServices calls neither observer: this fails.       *)
(***************************************************************************)
\* Logged call e is a visit of a child of the record that method c visits.
ChildOf(e, c) ==
    CASE c = "VisitStack"    -> e.op # "VisitStack"
      [] c = "VisitMetadata" -> e.op = "VisitTarget"
      [] c = "VisitServices" -> e.op = "VisitService"

C5_HooksAroundChildren ==
    pc = "done" =>
        /\ \A w \in Roles : \A c \in {"VisitStack", "VisitMetadata", "VisitServices"} :
            \E i \in DOMAIN log :
                /\ log[i].who = w /\ log[i].op = c
                /\ \A j \in DOMAIN log :
                    ChildOf(log[j], c) => IF w = "pre" THEN i < j ELSE j < i
        /\ \A i, j \in DOMAIN log :
            (/\ log[i].op \in LeafOps /\ log[j].op = log[i].op
             /\ log[i].name = log[j].name /\ log[i].public = log[j].public
             /\ log[i].who = "pre" /\ log[j].who = "post") => i < j

(***************************************************************************)
(* C6: a composite with an absent observer never invokes a method on it    *)
(* (no nil Visitor is dereferenced, nothing is logged for it), and the     *)
(* observer that is there receives, in a full traversal, exactly the calls *)
(* and the order it receives beside a second observer: VisitStack and      *)
(* VisitMetadata around the sorted entries for pre; the sorted entries,    *)
(* with VisitMetadata after the Targets and VisitStack at the end, for     *)
(* post.                                                                   *)
(***************************************************************************)
\* The keys of S in ascending byte order.
Ranked(S) ==
    [i \in 1..Cardinality(S) |->
        CHOOSE x \in S : Cardinality({y \in S : Precedes(y, x)}) = i - 1]

OpOfMap(m) ==
    CASE m = "Targets"      -> "VisitTarget"
      [] m = "Parameters"   -> "VisitParameter"
      [] m = "Dependencies" -> "VisitDependency"
      [] OTHER              -> "VisitService"

\* What a call was about: the method, the name, the public flag.
Sig(e) == <<e.op, e.name, e.public>>

LeafSigs(m) ==
    LET r == Ranked(collected[m])
    IN [i \in DOMAIN r |-> <<OpOfMap(m), r[i], m = "Public">>]

ExpectedCalls(w) ==
    LET stk == << <<"VisitStack", <<>>, FALSE>> >>
        meta == << <<"VisitMetadata", <<>>, FALSE>> >>
        rest == LeafSigs("Parameters") \o LeafSigs("Dependencies")
                \o LeafSigs("Public") \o LeafSigs("Private")
    IN IF w = "pre"
       THEN stk \o meta \o LeafSigs("Targets") \o rest
       ELSE LeafSigs("Targets") \o meta \o rest \o stk

CallsOf(w) ==
    LET mine == SelectSeq(log, LAMBDA e : e.who = w)
    IN [i \in DOMAIN mine |-> Sig(mine[i])]

C6_AbsentObserverSkipped ==
    /\ ~panicked
    /\ pc # "panic"
    /\ \A i \in DOMAIN log : log[i].who \in Roles
    /\ pc = "done" => \A w \in Roles : CallsOf(w) = ExpectedCalls(w)

\* A traversal by a composite that holds a pre observer only has ended.
C6_Witness ==
    /\ pc = "done"
    /\ v.pre # Nil /\ v.post = Nil
    /\ Len(log) >= 5

(***************************************************************************)
(* C7: when the observers mutated nothing, VisitStack returns with the     *)
(* Stack as it was handed over: every map has the same keys and the same   *)
(* value at every key.                                                     *)
(***************************************************************************)
C7_NoMutationNoChange ==
    (pc = "done" /\ ReadOnly(log)) => stack = orig

\* Three entries were visited, and written back, by observers that left
\* them alone.
C7_Witness ==
    /\ pc = "done"
    /\ Roles # {}
    /\ ReadOnly(log)
    /\ Entries(orig) = MaxEntries
    /\ Cardinality({i \in DOMAIN log : log[i].op \in LeafOps}) >= MaxEntries

(***************************************************************************)
(* C8: two traversals in a row of the same Stack by the same read-only     *)
(* observers log the same calls in the same order, however the maps were   *)
(* enumerated in either.                                                   *)
(***************************************************************************)
C8_SameLogTwice ==
    (/\ pc = "done" /\ prev.ran
     /\ ReadOnly(log) /\ ReadOnly(prev.log)
     /\ prev.orig = orig) => log = prev.log

\* The second traversal of a Stack with a map of two keys or more has ended.
C8_Witness ==
    /\ pc = "done"
    /\ prev.ran
    /\ ReadOnly(log) /\ ReadOnly(prev.log)
    /\ \E i, j \in DOMAIN log : i < j /\ SameLoop(log[i], log[j])

(***************************************************************************)
(* C9: a traversal that has been started ends, and when it ends every      *)
(* observer has been called exactly once on every entry that the maps      *)
(* held when the walk reached them (all the entries of the Stack handed    *)
(* over, unless a container observer changed a key set), whatever the      *)
(* observers did.                                                          *)
(***************************************************************************)
VisitedOnce ==
    /\ \A m \in MapNames : \A k \in collected[m] : \A w \in Roles :
        Cardinality({i \in DOMAIN log :
                        /\ log[i].who = w
                        /\ log[i].op \in LeafOps
                        /\ MapOfCall(log[i]) = m
                        /\ log[i].name = k}) = 1
    /\ obsKind # "container" =>
        \A m \in MapNames : collected[m] = DOMAIN MapOf(orig, m)

C9_WalkCompletes ==
    (pc = "VisitMetadata") ~> (pc = "done" /\ VisitedOnce)

\* A traversal of three entries during which an observer mutated one has
\* ended.
C9_Witness ==
    /\ pc = "done"
    /\ v.pre # Nil /\ v.post # Nil
    /\ ~ReadOnly(log)
    /\ Entries(orig) = MaxEntries
    /\ VisitedOnce

(***************************************************************************)
(* C10: Diag() returns the pre observer's sink when there is a pre         *)
(* observer, else the post observer's sink when there is one, else nil;    *)
(* never the post observer's sink beside a pre observer.                   *)
(***************************************************************************)
C10_DiagPrefersPre ==
    ret # NoRet =>
        /\ v.pre = ObsA => ret = "sinkA"
        /\ (v.pre = Nil /\ v.post = ObsB) => ret = "sinkB"
        /\ (v.pre = Nil /\ v.post = Nil) => ret = Nil
        /\ v.pre # Nil => ret # "sinkB"

\* Diag() was called on a composite of two observers.
C10_Witness ==
    /\ ret = "sinkA"
    /\ v.pre # Nil /\ v.post # Nil

(***************************************************************************)
(* C11: the engine neither creates nor destroys records.  With observers   *)
(* that mutate only the leaf record they are handed, each of the five maps *)
(* has, at every point of a traversal, the key set it had before the       *)
(* traversal.  With container observers it has the key set the observers   *)
(* gave it: that of the Stack handed over when no container observer was   *)
(* handed the map, else the one the last such observer left.               *)
(***************************************************************************)
\* The logged container call c was handed map m (inside its record).
Covers(c, m) ==
    \/ c.op = "VisitStack"
    \/ c.op = "VisitMetadata" /\ m = "Targets"

\* Map m as the logged container call c left it.
HookMap(c, m) ==
    IF c.op = "VisitStack" THEN MapOf(c.left, m) ELSE c.left.Targets

\* Map m has the key set the observers gave it.
KeysKept(m) ==
    \/ /\ \A i \in DOMAIN log : ~Covers(log[i], m)
       /\ DOMAIN MapOf(stack, m) = DOMAIN MapOf(orig, m)
    \/ \E i \in DOMAIN log :
        /\ Covers(log[i], m)
        /\ \A j \in (i + 1)..Len(log) : ~Covers(log[j], m)
        /\ DOMAIN MapOf(stack, m) = DOMAIN HookMap(log[i], m)

C11_KeySetsKept ==
    IF obsKind = "container"
    THEN \A m \in MapNames : KeysKept(m)
    ELSE \A m \in MapNames : DOMAIN MapOf(stack, m) = DOMAIN MapOf(orig, m)

\* A traversal of three entries by observers that edited leaf records has
\* ended: the values changed, the key sets did not.
C11_Witness ==
    /\ pc = "done"
    /\ obsKind = "leaf"
    /\ Entries(orig) = MaxEntries
    /\ stack # orig
    /\ \A m \in MapNames : DOMAIN MapOf(stack, m) = DOMAIN MapOf(orig, m)

(***************************************************************************)
(* C12: within one traversal the containers are walked in a fixed          *)
(* sequence: the Metadata (handed over with the kind tag "Stack") and its  *)
(* Targets, then the Parameters, then the Dependencies, then the Services. *)
(* In the log of a traversal that has ended no call of a group is followed *)
(* by a call of an earlier group, and every observer was called once on    *)
(* the Metadata and on every entry of every group.                         *)
(***************************************************************************)
\* The group of the walk a logged call belongs to (0 and 5: the two
\* VisitStack hooks, before and after the groups).
Phase(e) ==
    CASE e.op = "VisitStack"      -> IF e.who = "pre" THEN 0 ELSE 5
      [] e.op = "VisitMetadata"   -> 1
      [] e.op = "VisitTarget"     -> 1
      [] e.op = "VisitParameter"  -> 2
      [] e.op = "VisitDependency" -> 3
      [] e.op = "VisitService"    -> 4

C12_FixedSequence ==
    pc = "done" =>
        /\ \A i \in 1..(Len(log) - 1) : Phase(log[i]) <= Phase(log[i + 1])
        /\ \A i \in DOMAIN log :
            log[i].op = "VisitMetadata" => log[i].kind = "Stack"
        /\ \A w \in Roles :
            /\ Cardinality({i \in DOMAIN log :
                                log[i].op = "VisitMetadata" /\ log[i].who = w}) = 1
            /\ \A m \in MapNames : \A k \in collected[m] :
                \E i \in DOMAIN log :
                    /\ log[i].who = w /\ log[i].op \in LeafOps
                    /\ log[i].name = k /\ MapOfCall(log[i]) = m

\* A Target, a Parameter, a Dependency and a Service were visited, in that
\* order, after the Metadata.
C12_Witness ==
    /\ pc = "done"
    /\ \E h \in DOMAIN log :
        /\ log[h].op = "VisitMetadata" /\ log[h].kind = "Stack"
        /\ \E i \in (h + 1)..Len(log) :
            /\ log[i].op = "VisitTarget"
            /\ \E j \in (i + 1)..Len(log) :
                /\ log[j].op = "VisitParameter"
                /\ \E k \in (j + 1)..Len(log) :
                    /\ log[k].op = "VisitDependency"
                    /\ \E l \in (k + 1)..Len(log) : log[l].op = "VisitService"

(***************************************************************************)
(* C13: in VisitMetadata, the pre observer's VisitMetadata comes before    *)
(* every Target visit, and the post observer's VisitMetadata comes after   *)
(* every Target was visited by every observer and copied back: the         *)
(* Metadata handed to the post observer holds, at each Target key, the     *)
(* value the last visit of that Target left.                               *)
(***************************************************************************)
\* Call j of the log is the last visit of its Target before call i.
LastTargetVisitBefore(j, i) ==
    /\ j < i
    /\ log[j].op = "VisitTarget"
    /\ \A h \in (j + 1)..(i - 1) :
        ~(log[h].op = "VisitTarget" /\ log[h].name = log[j].name)

C13_MetadataBrackets ==
    \A i \in DOMAIN log :
        log[i].op = "VisitMetadata" =>
            /\ log[i].who = "pre" =>
                \A j \in 1..(i - 1) : log[j].op # "VisitTarget"
            /\ log[i].who = "post" =>
                /\ \A j \in (i + 1)..Len(log) : log[j].op # "VisitTarget"
                /\ \A k \in collected["Targets"] : \A w \in Roles :
                    \E j \in 1..(i - 1) :
                        /\ log[j].op = "VisitTarget" /\ log[j].name = k
                        /\ log[j].who = w
                /\ DOMAIN log[i].seen.Targets = collected["Targets"]
                /\ \A j \in 1..(i - 1) :
                    LastTargetVisitBefore(j, i) =>
                        At(log[i].seen.Targets, log[j].name) = {log[j].left}

\* Two Targets were visited and the first was edited: the post observer's
\* VisitMetadata was handed the Targets with the edit in it.
C13_Witness ==
    \E i \in DOMAIN log :
        /\ log[i].op = "VisitMetadata" /\ log[i].who = "post"
        /\ DOMAIN log[i].seen.Targets = {NameA, NameB}
        /\ log[i].seen.Targets[NameA].rev > 0
        /\ log[i].seen.Targets[NameB].rev = 0
        /\ \E h \in 1..(i - 1) : log[h].op = "VisitMetadata" /\ log[h].who = "pre"

(***************************************************************************)
(* C14: the write-back of an entry is done before the next entry is        *)
(* visited.  Between two visits of a loop, every key already visited holds *)
(* the value its visit left, and every key not yet visited holds the       *)
(* value it had when the loop began.                                       *)
(***************************************************************************)
\* The value key k of map m has before the engine visits it.
Unvisited(m, k) ==
    IF k \in DOMAIN MapOf(orig, m) THEN MapOf(orig, m)[k] ELSE Leaf(m, k)

\* Some logged call visited entry k of map m.
Visited(m, k) ==
    \E j \in DOMAIN log :
        log[j].op \in LeafOps /\ MapOfCall(log[j]) = m /\ log[j].name = k

C14_NoPartialWrite ==
    pc \in MapNames =>
        \A h \in DOMAIN keys :
            LET k == keys[h]
                now == At(MapOf(stack, pc), k)
            IN IF h < idx
               THEN /\ Roles # {} => Visited(pc, k)
                    /\ \A j \in DOMAIN log :
                        (/\ log[j].name = k /\ log[j].op \in LeafOps
                         /\ MapOfCall(log[j]) = pc
                         /\ LastWord(log, j)) => now = {log[j].left}
                    /\ Roles = {} => now = {Unvisited(pc, k)}
               ELSE /\ ~Visited(pc, k)
                    /\ now = {Unvisited(pc, k)}

\* In the middle of the Parameters loop: a was visited and edited, ab and b
\* are still to come.
C14_Witness ==
    /\ pc = "Parameters"
    /\ Len(keys) = 3
    /\ idx = 2
    /\ stack.Parameters[NameA].rev > 0
    /\ stack.Parameters[NameAB] = orig.Parameters[NameAB]
    /\ stack.Parameters[NameB] = orig.Parameters[NameB]

(***************************************************************************)
(* C15: a Service is copied back into the map it was read from.  A         *)
(* service handed over with public = true was read from Public, one with   *)
(* public = false from Private, under the name it is visited by; each      *)
(* entry of Public and of Private holds a record of its own map and key:   *)
(* what the last visit of that very entry left, or, if it was not visited, *)
(* what it held before.  An edit of Public[n] never shows in Private[n],   *)
(* nor the reverse.                                                        *)
(***************************************************************************)
C15_ServiceWriteBackTarget ==
    /\ \A j \in DOMAIN log :
        log[j].op = "VisitService" =>
            /\ log[j].seen.id = <<MapOfCall(log[j]), log[j].name>>
            /\ log[j].left.id = log[j].seen.id
    /\ \A m \in {"Public", "Private"} :
        /\ DOMAIN MapOf(stack, m) = DOMAIN MapOf(orig, m)
        /\ \A k \in DOMAIN MapOf(stack, m) :
            /\ MapOf(stack, m)[k].id = <<m, k>>
            /\ ~Visited(m, k) => MapOf(stack, m)[k] = MapOf(orig, m)[k]
            /\ \A j \in DOMAIN log :
                (/\ log[j].op = "VisitService" /\ log[j].name = k
                 /\ MapOfCall(log[j]) = m
                 /\ LastWord(log, j)) => MapOf(stack, m)[k] = log[j].left

\* Public and Private both hold a service named a; both were visited, the
\* private one was edited and the public one was not.
C15_Witness ==
    /\ pc = "done"
    /\ NameA \in DOMAIN stack.Services.Public
    /\ NameA \in DOMAIN stack.Services.Private
    /\ Visited("Public", NameA)
    /\ Visited("Private", NameA)
    /\ stack.Services.Private[NameA].rev > 0
    /\ stack.Services.Public[NameA] = orig.Services.Public[NameA]

(***************************************************************************)
(* C16: on a leaf entry, a composite of two observers calls pre and then   *)
(* post, one right after the other, on the same working copy: the post     *)
(* observer is handed the record as the pre observer left it, and what     *)
(* the map holds right after the visit is what the post observer left.     *)
(***************************************************************************)
\* Logged calls e and f are the same leaf method on the same entry.
SameVisit(e, f) ==
    /\ e.op \in LeafOps
    /\ f.op = e.op
    /\ f.name = e.name
    /\ f.public = e.public

C16_PreThenPostOnCopy ==
    (v.pre # Nil /\ v.post # Nil) =>
        \A i \in DOMAIN log :
            /\ (log[i].op \in LeafOps /\ log[i].who = "pre") =>
                /\ i < Len(log)
                /\ log[i + 1].who = "post"
                /\ SameVisit(log[i], log[i + 1])
                /\ log[i + 1].seen = log[i].left
            /\ (log[i].op \in LeafOps /\ log[i].who = "post") =>
                /\ i > 1
                /\ log[i - 1].who = "pre"
                /\ SameVisit(log[i - 1], log[i])
                /\ log[i - 1].seen = Unvisited(MapOfCall(log[i]), log[i].name)
                /\ i = Len(log) =>
                    At(MapOf(stack, MapOfCall(log[i])), log[i].name)
                        = {log[i].left}

\* Both observers edited the same Parameter: the post observer was handed
\* the pre observer's edit, and the map holds both edits.
C16_Witness ==
    /\ v.pre # Nil /\ v.post # Nil
    /\ \E i \in DOMAIN log :
        /\ log[i].op = "VisitParameter" /\ log[i].who = "pre"
        /\ log[i].seen.rev = 0 /\ log[i].left.rev = 1
        /\ i < Len(log)
        /\ log[i + 1].who = "post"
        /\ log[i + 1].seen.rev = 1 /\ log[i + 1].left.rev = 2
        /\ stack.Parameters[log[i].name].rev = 2

(***************************************************************************)
(* C17: in a traversal that has ended, the keys visited in a map are the   *)
(* keys the map held when the engine collected them, after the pre hook of *)
(* the owning container returned: the Parameters as pre.VisitStack left    *)
(* them, the Targets as pre.VisitMetadata left them.  A key that enters a  *)
(* map after its keys were collected is not visited in that traversal.     *)
(***************************************************************************)
\* The logged calls of the pre hook of the container that owns map m.
PreHooks(m) ==
    {i \in DOMAIN log :
        /\ log[i].who = "pre"
        /\ \/ m = "Parameters" /\ log[i].op = "VisitStack"
           \/ m = "Targets" /\ log[i].op = "VisitMetadata"}

\* The key set of map m when its container's pre hook has returned.
KeysAfterPreHook(m) ==
    IF m \notin {"Parameters", "Targets"} \/ PreHooks(m) = {}
    THEN DOMAIN MapOf(orig, m)
    ELSE DOMAIN HookMap(log[CHOOSE i \in PreHooks(m) : TRUE], m)

C17_VisitedAreCollected ==
    pc = "done" =>
        /\ \A j \in DOMAIN log :
            log[j].op \in LeafOps =>
                log[j].name \in collected[MapOfCall(log[j])]
        /\ \A m \in MapNames :
            /\ collected[m] = KeysAfterPreHook(m)
            /\ \A k \in collected[m] : \A w \in Roles :
                \E j \in DOMAIN log :
                    /\ log[j].who = w /\ log[j].op \in LeafOps
                    /\ log[j].name = k /\ MapOfCall(log[j]) = m

\* pre.VisitStack added the Parameter ab, which was visited;
\* post.VisitMetadata added the Target ab, after the Targets had been
\* collected, and it was not visited.
C17_Witness ==
    /\ pc = "done"
    /\ NameAB \notin DOMAIN orig.Parameters
    /\ Visited("Parameters", NameAB)
    /\ NameAB \notin DOMAIN orig.Metadata.Targets
    /\ NameAB \in DOMAIN stack.Metadata.Targets
    /\ ~Visited("Targets", NameAB)

(***************************************************************************)
(* C18: ArchMap and ArchNames are inverses of each other over the five     *)
(* architectures: the name of the Arch of every name ArchMap holds is      *)
(* that name, the Arch of the name of every Arch ArchNames holds is that   *)
(* Arch, and the empty name stands for NoArch.                             *)
(***************************************************************************)
C18_TablesInverse ==
    /\ Cardinality(DOMAIN ArchMap) = 5
    /\ Cardinality(DOMAIN ArchNames) = 5
    /\ \A n \in DOMAIN ArchMap :
        ArchMap[n] \in DOMAIN ArchNames /\ ArchNames[ArchMap[n]] = n
    /\ \A a \in DOMAIN ArchNames :
        ArchNames[a] \in DOMAIN ArchMap /\ ArchMap[ArchNames[a]] = a
    /\ ArchMap[""] = NoArch
    /\ \A i \in DOMAIN lookups :
        LET l == lookups[i]
        IN /\ (l.table = "ArchMap" /\ l.key \in DOMAIN ArchMap) => l.back = l.key
           /\ (l.table = "ArchNames" /\ l.key \in DOMAIN ArchNames) => l.back = l.key
           /\ (l.table = "ArchMap" /\ l.key = "") => l.val = NoArch

\* "azure" was looked up and led back to "azure", VMWareArch was looked up
\* and led back to VMWareArch, and "" was looked up and gave NoArch.
C18_Witness ==
    /\ \E i \in DOMAIN lookups :
        /\ lookups[i].table = "ArchMap" /\ lookups[i].key = "azure"
        /\ lookups[i].val = AzureArch /\ lookups[i].back = "azure"
    /\ \E i \in DOMAIN lookups :
        /\ lookups[i].table = "ArchNames" /\ lookups[i].key = VMWareArch
        /\ lookups[i].val = "vmware" /\ lookups[i].back = VMWareArch
    /\ \E i \in DOMAIN lookups :
        /\ lookups[i].table = "ArchMap" /\ lookups[i].key = ""
        /\ lookups[i].val = NoArch

=============================================================================
